---- MODULE Spec2Model ----
(***************************************************************************)
(* A model of the two synchronisation primitives of m-ordering:            *)
(*   - SpinLock               (src/src/main11.rs)                          *)
(*   - VersionedAtomicCounter (src/src/main5.rs)                           *)
(* together with the driver code that exercises them.                      *)
(*                                                                         *)
(* Every atomic access is one step.  Accesses to a single atomic location  *)
(* are totally ordered (coherence), so `locked` and the packed word `data` *)
(* are plain variables.  The shared counter of test_spinlock is accessed   *)
(* with Relaxed ordering, so it is modelled by its modification order      *)
(* `hist` and a per-thread view: what a thread may still read depends on   *)
(* the Release/Acquire edges the lock creates.                             *)
(***************************************************************************)
EXTENDS Integers, Sequences, FiniteSets, TLC

\* ------------------------------------------------------------------ bounds
NThreads == 3        \* threads that share the lock
NWorkers == 2        \* workers of test_spinlock
KIters == 3          \* iterations of each test_spinlock worker
MaxTries == 2        \* try_lock attempts of each worker of the try_lock harness

Threads == 1..NThreads
Workers == 1..NWorkers

VARIABLES
    locked,      \* SpinLock.locked : AtomicBool
    relView,     \* the view published by the last Release store to `locked`
    pc,          \* pc[t] : where thread t is
    ret,         \* ret[t] : what t's last try_lock() returned
    view,        \* view[t] : index in `hist` of the oldest write t may read
    hist,        \* modification order of test_spinlock's `counter`
    current,     \* current[t] : test_spinlock's local `current`
    iter,        \* iter[t] : iterations (calls) t has started
    dataLen,     \* length of test_spinlock's `data` vector
    finalCount,  \* test_spinlock's final_count (-1 before it is read)
    guard,       \* the harness's non-atomic "inside the critical section" flag
    overlap,     \* the guard was seen already set on entry
    acq,         \* successful acquisitions recorded by the harness
    unl,         \* unlock() calls made by the harness
    data,        \* VersionedAtomicCounter.data : AtomicU64 (four limbs)
    cur,         \* cur[t] : the pair t's last load() returned (`current`)
    initial,     \* initial[t] : the pair t's first load() returned (`initial`)
    sCurrent,    \* sCurrent[t] : `current` inside t's running store()
    arg,         \* arg[t] : the value passed to t's running store()
    res,         \* res[t] : result of t's last compare_exchange_versioned
    updated,     \* updated[t] : the pair t's last store() returned
    finalState,  \* main's final_state
    installed,   \* history: the pairs installed in the cell, oldest first
    loadAt,      \* history: mutations in effect at the detector's first load
    casAt,       \* history: mutations in effect at the detector's CAS
    normalCasCount,  \* test_aba_prevention_100_times: normal_cas_count
    casFailedCount,  \* test_aba_prevention_100_times: cas_failed_count
    versionHist, \* main6: modification order of `version`, each write with
                 \* the view of `counter` its Release store published
    abaCount,    \* main4: aba_count
    normalCount  \* main4: normal_count

lockVars == <<locked, relView>>
testVars == <<hist, current, dataLen, finalCount>>
guardVars == <<guard, overlap, acq, unl>>
cellVars == <<data, cur, initial, sCurrent, arg, res, updated, finalState,
              installed, loadAt, casAt>>
tallyVars == <<normalCasCount, casFailedCount>>
plainVars == <<versionHist, abaCount, normalCount>>
spinVars == <<locked, relView, ret, view, hist, current, dataLen, finalCount,
              guard, overlap, acq, unl>>
vars == <<locked, relView, pc, ret, view, hist, current, iter, dataLen,
          finalCount, guard, overlap, acq, unl, data, cur, initial, sCurrent,
          arg, res, updated, finalState, installed, loadAt, casAt,
          normalCasCount, casFailedCount, versionHist, abaCount, normalCount>>

Max(a, b) == IF a >= b THEN a ELSE b

\* ------------------------------------------------------- machine integers
\* A u32 is <<high 16 bits, low 16 bits>>, a u64 four such limbs, most
\* significant first.
Limb == 2^16

U32(n) == <<n \div Limb, n % Limb>>

U32Max == <<Limb - 1, Limb - 1>>

\* a < b on u32
U32Less(a, b) == a[1] < b[1] \/ (a[1] = b[1] /\ a[2] < b[2])

\* a + 1 on u32, without overflow
U32Same(a) == a
U32Succ(a) == IF a[2] + 1 < Limb THEN <<a[1], a[2] + 1>> ELSE <<a[1] + 1, 0>>

\* `a + 1` on u32 as the build makes it: a debug build panics on overflow, a
\* release build wraps.
CheckedAdd1(a) ==
    IF a = U32Max
    THEN {[overflow |-> TRUE, sum |-> a], [overflow |-> FALSE, sum |-> U32(0)]}
    ELSE {[overflow |-> FALSE, sum |-> U32Succ(a)]}

RECURSIVE BitOr(_, _)
BitOr(a, b) ==
    IF a = 0 /\ b = 0
    THEN 0
    ELSE (IF a % 2 = 1 \/ b % 2 = 1 THEN 1 ELSE 0) + 2 * BitOr(a \div 2, b \div 2)

RECURSIVE BitAnd(_, _)
BitAnd(a, b) ==
    IF a = 0 \/ b = 0
    THEN 0
    ELSE (IF a % 2 = 1 /\ b % 2 = 1 THEN 1 ELSE 0) + 2 * BitAnd(a \div 2, b \div 2)

\* x as u64
AsU64(x) == <<0, 0, x[1], x[2]>>

\* w as u32 (truncation)
AsU32(w) == <<w[3], w[4]>>

\* w << 32 and w >> 32 on u64
ShlNone(w) == w
ShrNone(w) == w
Shl32(w) == <<w[3], w[4], 0, 0>>
Shr32(w) == <<0, 0, w[1], w[2]>>

BitOr64(a, b) == [i \in 1..4 |-> BitOr(a[i], b[i])]
BitAnd64(a, b) == [i \in 1..4 |-> BitAnd(a[i], b[i])]

\* 0xFFFFFFFF as u64
LowMask16 == <<0, 0, 0, Limb - 1>>
LowMask == <<0, 0, Limb - 1, Limb - 1>>

\* --------------------------------------------------------- VersionedValue
\* VersionedValue::new
new(value, version) == [value |-> value, version |-> version]

\* ((self.version as u64) << 32) | (self.value as u64)
pack(v) == BitOr64(Shl32(AsU64(v.version)), AsU64(v.value))

\* version = (packed >> 32) as u32; value = (packed & 0xFFFFFFFF) as u32
UnpackValueOnly(packed) == [value |-> AsU32(packed), version |-> <<0, 0>>]
unpack(packed) ==
    [value |-> AsU32(BitAnd64(packed, LowMask)),
     version |-> AsU32(Shr32(packed))]

\* AtomicU64::compare_exchange succeeds exactly when the word equals expected.
WordMatchesValueOnly(word, expected) == AsU32(word) = AsU32(expected)
WordMatchesNever(word, expected) == FALSE
WordMatches(word, expected) == word = expected

\* The registers of the threads in tset, for a cell created by new(v).
CellNew(v, tset) ==
    /\ data = pack(new(v, U32(0)))
    /\ cur = [t \in tset |-> new(v, U32(0))]
    /\ initial = [t \in tset |-> new(v, U32(0))]
    /\ sCurrent = [t \in tset |-> new(U32(0), U32(0))]
    /\ arg = [t \in tset |-> U32(0)]
    /\ res = [t \in tset |-> [ok |-> TRUE, val |-> new(v, U32(0))]]
    /\ updated = [t \in tset |-> new(v, U32(0))]
    /\ finalState = new(v, U32(0))
    /\ installed = <<new(v, U32(0))>>
    /\ loadAt = -1
    /\ casAt = -1

\* ---------------------------------------------------------------- SpinLock

\* AtomicBool::compare_exchange_weak(expected, _): the set of results it can
\* give when the flag holds `flag`.  TRUE is Ok; a weak CAS may fail although
\* the comparison succeeds.
CompareExchangeAlwaysOk(flag, expected) == {TRUE}
CompareExchangeIgnoresExpected(flag, expected) == {TRUE, FALSE}
compare_exchange_weak(flag, expected) ==
    IF flag = expected THEN {TRUE, FALSE} ELSE {FALSE}

\* The view a successful Acquire CAS gives thread t: it reads the flag written
\* by the last Release store, so it also sees what that thread had seen.
AcquireViewRelaxed(t) == view[t]
AcquireView(t) == Max(view[t], relView)

\* The view a Release store by thread t publishes with the flag.
ReleaseViewRelaxed(t) == relView
ReleaseView(t) == view[t]

\* The value unlock() stores in the flag.
UnlockValueKeep == locked
UnlockValue == FALSE

\* SpinLock::new
LockInit ==
    /\ locked = FALSE
    /\ relView = 1

\* lock(), phase 1: one compare_exchange_weak(false, true, Acquire, Relaxed);
\* Ok leaves the loop (lock() returns), Err goes to the wait loop.
LockCas(t) ==
    /\ pc[t] = "lock_cas"
    /\ \E ok \in compare_exchange_weak(locked, FALSE) :
          IF ok
          THEN /\ locked' = TRUE
               /\ view' = [view EXCEPT ![t] = AcquireView(t)]
               /\ pc' = [pc EXCEPT ![t] = "lock_ret"]
          ELSE /\ pc' = [pc EXCEPT ![t] = "lock_spin"]
               /\ UNCHANGED <<locked, view>>
    /\ UNCHANGED <<relView, ret, iter, testVars, guardVars, cellVars,
                   tallyVars, plainVars>>

\* lock(), phase 2: one Relaxed load of the flag; spin while it is true.
LockSpinBlind(t) ==
    /\ pc[t] = "lock_spin"
    /\ pc' = [pc EXCEPT ![t] = "lock_cas"]
    /\ UNCHANGED <<lockVars, ret, view, iter, testVars, guardVars, cellVars,
                   tallyVars, plainVars>>

LockSpin(t) ==
    /\ pc[t] = "lock_spin"
    /\ pc' = [pc EXCEPT ![t] = IF locked THEN "lock_spin" ELSE "lock_cas"]
    /\ UNCHANGED <<lockVars, ret, view, iter, testVars, guardVars, cellVars,
                   tallyVars, plainVars>>

\* unlock(): one Release store of false.  No ownership check.
unlock(t) ==
    /\ pc[t] = "unlock"
    /\ locked' = UnlockValue
    /\ relView' = ReleaseView(t)
    /\ pc' = [pc EXCEPT ![t] = "idle"]
    /\ UNCHANGED <<ret, view, iter, testVars, guardVars, cellVars,
                   tallyVars, plainVars>>

\* try_lock(): one compare_exchange_weak(false, true, Acquire, Relaxed); its
\* is_ok() is returned.
try_lock(t) ==
    /\ pc[t] = "try_cas"
    /\ \E ok \in compare_exchange_weak(locked, FALSE) :
          /\ ret' = [ret EXCEPT ![t] = ok]
          /\ IF ok
             THEN /\ locked' = TRUE
                  /\ view' = [view EXCEPT ![t] = AcquireView(t)]
             ELSE UNCHANGED <<locked, view>>
    /\ pc' = [pc EXCEPT ![t] = "try_ret"]
    /\ UNCHANGED <<relView, iter, testVars, guardVars, cellVars,
                   tallyVars, plainVars>>

\* Thread t is between a successful acquisition and its unlock().
Holding(t) ==
    \/ pc[t] \in {"lock_ret", "cs_store", "cs_push", "cs", "unlock"}
    \/ pc[t] = "try_ret" /\ ret[t]

\* Thread t has called lock() and lock() has not returned.
InLock(t) == pc[t] \in {"lock_cas", "lock_spin"}

Holders == {t \in Threads : Holding(t)}

\* ------------------------------------------------- any client of the lock
\* A thread calls lock() or try_lock() whenever it likes, runs its critical
\* section when it got the lock, and then calls unlock(); unlock() is called
\* by the holder only.

ThreadInit ==
    /\ pc = [t \in Threads |-> "idle"]
    /\ ret = [t \in Threads |-> FALSE]
    /\ view = [t \in Threads |-> 1]
    /\ iter = [t \in Threads |-> 0]

TestInit ==
    /\ hist = <<0>>
    /\ current = [t \in Threads |-> 0]
    /\ dataLen = 0
    /\ finalCount = -1

GuardInit ==
    /\ guard = FALSE
    /\ overlap = FALSE
    /\ acq = 0
    /\ unl = 0

TallyInit ==
    /\ normalCasCount = 0
    /\ casFailedCount = 0

\* main6: let version = AtomicU32::new(0); main4: the two tallies.
PlainInit ==
    /\ versionHist = <<[val |-> 0, view |-> 1]>>
    /\ abaCount = 0
    /\ normalCount = 0

\* The specifications of the lock leave the cell alone.
Init ==
    /\ LockInit /\ ThreadInit /\ TestInit /\ GuardInit /\ TallyInit /\ PlainInit
    /\ CellNew(U32(0), Threads)

CallLock(t) ==
    /\ pc[t] = "idle"
    /\ pc' = [pc EXCEPT ![t] = "lock_cas"]
    /\ UNCHANGED <<lockVars, ret, view, iter, testVars, guardVars, cellVars,
                   tallyVars, plainVars>>

CallTryLock(t) ==
    /\ pc[t] = "idle"
    /\ pc' = [pc EXCEPT ![t] = "try_cas"]
    /\ UNCHANGED <<lockVars, ret, view, iter, testVars, guardVars, cellVars,
                   tallyVars, plainVars>>

\* try_lock() returned false: the caller goes on without the lock.
TryFailed(t) ==
    /\ pc[t] = "try_ret"
    /\ ~ret[t]
    /\ pc' = [pc EXCEPT ![t] = "idle"]
    /\ UNCHANGED <<lockVars, ret, view, iter, testVars, guardVars, cellVars,
                   tallyVars, plainVars>>

\* The critical section of an arbitrary client that got the lock, up to its
\* unlock() call: whatever it does to the data it guards, it leaves the lock
\* alone.  (The critical section of test_spinlock, with its counter and its
\* data, is TestLoad, TestStore and TestPush below.)
CriticalSection(t) ==
    /\ \/ pc[t] = "lock_ret"
       \/ pc[t] = "try_ret" /\ ret[t]
    /\ pc' = [pc EXCEPT ![t] = "unlock"]
    /\ UNCHANGED <<lockVars, ret, view, iter, testVars, guardVars, cellVars,
                   tallyVars, plainVars>>

Next ==
    \E t \in Threads :
        \/ CallLock(t)
        \/ CallTryLock(t)
        \/ LockCas(t)
        \/ LockSpin(t)
        \/ try_lock(t)
        \/ TryFailed(t)
        \/ CriticalSection(t)
        \/ unlock(t)

Spec == Init /\ [][Next]_vars

\* The same clients under fair scheduling.  A thread that is inside lock(),
\* try_lock(), its critical section or unlock() keeps running (it is never
\* suspended for ever), so every thread that acquires the lock eventually
\* calls unlock(); when to call lock()/try_lock() again is the thread's own
\* choice.  A weak CAS may fail spuriously, but not consistently: if the flag
\* stays unlocked from some point on, thread t's CAS stops failing.
Progress(t) ==
    \/ LockCas(t)
    \/ LockSpin(t)
    \/ try_lock(t)
    \/ TryFailed(t)
    \/ CriticalSection(t)
    \/ unlock(t)

SpuriousFailure(t) == LockCas(t) /\ ~locked /\ ~locked'

Fairness ==
    \A t \in Threads :
        /\ WF_vars(Progress(t))
        /\ ([]<>locked) \/ (<>[][~SpuriousFailure(t)]_vars)

SpecFair == Init /\ [][Next]_vars /\ Fairness

\* Clients that break the contract of unlock(): besides the above, a thread
\* may call unlock() whenever it is idle, whether or not anybody holds the
\* lock.
CallUnlock(t) ==
    /\ pc[t] = "idle"
    /\ pc' = [pc EXCEPT ![t] = "unlock"]
    /\ UNCHANGED <<lockVars, ret, view, iter, testVars, guardVars, cellVars,
                   tallyVars, plainVars>>

NextMisuse ==
    \/ Next
    \/ \E t \in Threads : CallUnlock(t)

SpecMisuse == Init /\ [][NextMisuse]_vars

\* ------------------------------------------------------ try_lock harness
\* M threads each call try_lock() and, exactly when it returned true, enter
\* the critical section (checking and setting the guard), leave it (clearing
\* the guard) and call unlock().

TryCall(t) ==
    /\ pc[t] = "idle"
    /\ iter[t] < MaxTries
    /\ iter' = [iter EXCEPT ![t] = @ + 1]
    /\ pc' = [pc EXCEPT ![t] = "try_cas"]
    /\ UNCHANGED <<lockVars, ret, view, testVars, guardVars, cellVars,
                   tallyVars, plainVars>>

TryEnter(t) ==
    /\ pc[t] = "try_ret"
    /\ ret[t]
    /\ overlap' = (overlap \/ guard)
    /\ guard' = TRUE
    /\ acq' = acq + 1
    /\ pc' = [pc EXCEPT ![t] = "cs"]
    /\ UNCHANGED <<lockVars, ret, view, iter, testVars, unl, cellVars,
                   tallyVars, plainVars>>

TryExit(t) ==
    /\ pc[t] = "cs"
    /\ guard' = FALSE
    /\ unl' = unl + 1
    /\ pc' = [pc EXCEPT ![t] = "unlock"]
    /\ UNCHANGED <<lockVars, ret, view, iter, testVars, overlap, acq,
                   cellVars, tallyVars, plainVars>>

TryDone(t) ==
    /\ pc[t] = "idle"
    /\ iter[t] = MaxTries
    /\ pc' = [pc EXCEPT ![t] = "done"]
    /\ UNCHANGED <<lockVars, ret, view, iter, testVars, guardVars, cellVars,
                   tallyVars, plainVars>>

NextTry ==
    \E t \in Threads :
        \/ TryCall(t)
        \/ try_lock(t)
        \/ TryFailed(t)
        \/ TryEnter(t)
        \/ TryExit(t)
        \/ unlock(t)
        \/ TryDone(t)

SpecTry == Init /\ [][NextTry]_vars

\* --------------------------------------------------------- test_spinlock
\* Each worker runs KIters times: lock(); current = counter.load(Relaxed);
\* counter.store(current + 1, Relaxed); data.push(..); unlock().  After the
\* scope has joined the workers, main reads the counter.

InitTest ==
    /\ LockInit /\ TestInit /\ GuardInit /\ TallyInit /\ PlainInit
    /\ pc = [t \in Workers |-> "idle"]
    /\ ret = [t \in Workers |-> FALSE]
    /\ view = [t \in Workers |-> 1]
    /\ iter = [t \in Workers |-> 0]
    /\ CellNew(U32(0), Workers)

\* for j in 0..100 { lock.lock(); ...
TestCall(t) ==
    /\ pc[t] = "idle"
    /\ iter[t] < KIters
    /\ iter' = [iter EXCEPT ![t] = @ + 1]
    /\ pc' = [pc EXCEPT ![t] = "lock_cas"]
    /\ UNCHANGED <<lockVars, ret, view, testVars, guardVars, cellVars,
                   tallyVars, plainVars>>

\* let current = counter.load(Ordering::Relaxed): any write of the
\* modification order that is not older than what t has already seen.
TestLoad(t) ==
    /\ pc[t] = "lock_ret"
    /\ \E i \in view[t]..Len(hist) :
          /\ current' = [current EXCEPT ![t] = hist[i]]
          /\ view' = [view EXCEPT ![t] = i]
    /\ pc' = [pc EXCEPT ![t] = "cs_store"]
    /\ UNCHANGED <<lockVars, ret, iter, hist, dataLen, finalCount, guardVars,
                   cellVars, tallyVars, plainVars>>

\* counter.store(current + 1, Ordering::Relaxed)
TestStore(t) ==
    /\ pc[t] = "cs_store"
    /\ hist' = Append(hist, current[t] + 1)
    /\ view' = [view EXCEPT ![t] = Len(hist) + 1]
    /\ current' = [current EXCEPT ![t] = 0]
    /\ pc' = [pc EXCEPT ![t] = "cs_push"]
    /\ UNCHANGED <<lockVars, ret, iter, dataLen, finalCount, guardVars, cellVars,
                   tallyVars, plainVars>>

\* data.lock().unwrap().push(..)
TestPush(t) ==
    /\ pc[t] = "cs_push"
    /\ dataLen' = dataLen + 1
    /\ pc' = [pc EXCEPT ![t] = "unlock"]
    /\ UNCHANGED <<lockVars, ret, view, iter, hist, current, finalCount,
                   guardVars, cellVars, tallyVars, plainVars>>

\* The worker's loop is over.
TestDone(t) ==
    /\ pc[t] = "idle"
    /\ iter[t] = KIters
    /\ pc' = [pc EXCEPT ![t] = "done"]
    /\ UNCHANGED <<lockVars, ret, view, iter, testVars, guardVars, cellVars,
                   tallyVars, plainVars>>

\* let final_count = counter.load(Relaxed), after thread::scope has joined
\* every worker: main has seen whatever any worker had seen.
JoinedView == CHOOSE m \in {view[t] : t \in Workers} :
                 \A t \in Workers : view[t] <= m

TestFinal ==
    /\ \A t \in Workers : pc[t] = "done"
    /\ finalCount = -1
    /\ \E i \in JoinedView..Len(hist) : finalCount' = hist[i]
    /\ UNCHANGED <<lockVars, pc, ret, view, iter, hist, current, dataLen,
                   guardVars, cellVars, tallyVars, plainVars>>

NextTest ==
    \/ \E t \in Workers :
          \/ TestCall(t)
          \/ LockCas(t)
          \/ LockSpin(t)
          \/ TestLoad(t)
          \/ TestStore(t)
          \/ TestPush(t)
          \/ unlock(t)
          \/ TestDone(t)
    \/ TestFinal

SpecTest == InitTest /\ [][NextTest]_vars

\* The same workers when each acquisition is made either by lock() or by
\* try_lock(), repeated until it returns true.
TestTryCall(t) ==
    /\ pc[t] = "idle"
    /\ iter[t] < KIters
    /\ pc' = [pc EXCEPT ![t] = "try_cas"]
    /\ UNCHANGED <<lockVars, ret, view, iter, testVars, guardVars, cellVars,
                   tallyVars, plainVars>>

\* try_lock() returned true: the iteration's critical section begins (the
\* returned value is not used again).
TestTryEnter(t) ==
    /\ pc[t] = "try_ret"
    /\ ret[t]
    /\ ret' = [ret EXCEPT ![t] = FALSE]
    /\ iter' = [iter EXCEPT ![t] = @ + 1]
    /\ pc' = [pc EXCEPT ![t] = "lock_ret"]
    /\ UNCHANGED <<lockVars, view, testVars, guardVars, cellVars,
                   tallyVars, plainVars>>

NextTestTry ==
    \/ \E t \in Workers :
          \/ TestCall(t)
          \/ LockCas(t)
          \/ LockSpin(t)
          \/ TestTryCall(t)
          \/ try_lock(t)
          \/ TryFailed(t)
          \/ TestTryEnter(t)
          \/ TestLoad(t)
          \/ TestStore(t)
          \/ TestPush(t)
          \/ unlock(t)
          \/ TestDone(t)
    \/ TestFinal

SpecTestTry == InitTest /\ [][NextTestTry]_vars

\* ------------------------------------------------- VersionedAtomicCounter
MaxOps == 4          \* operations the clients of the cell perform in all

\* The two threads main spawns.
Writer == 1
Detector == 2

CellThreads == {Writer, Detector}

\* The values the drivers use: A = 0, B = 1 and the detector's new value 100.
ValueA == U32(0)
ValueB == U32(1)
NewValue == U32(100)
Values == {ValueA, ValueB, NewValue}

\* load(): one Acquire load of the word, unpacked.
LoadHalves == [value |-> unpack(data).value, version |-> <<0, 0>>]
load == unpack(data)

\* The number of mutations that have taken effect.
Mutations == Len(installed) - 1

\* store(value), first half: let current = self.load()
StoreRead(t, value, from, to) ==
    /\ pc[t] = from
    /\ sCurrent' = [sCurrent EXCEPT ![t] = load]
    /\ arg' = [arg EXCEPT ![t] = value]
    /\ pc' = [pc EXCEPT ![t] = to]
    /\ UNCHANGED <<data, cur, initial, res, updated, finalState, installed,
                   loadAt, casAt>>

\* store(value), second half: new_value = (value, current.version + 1);
\* self.data.store(new_value.pack(), Release); new_value is returned.  The
\* call's locals end with it.
StoreWriteWaits(t, from, to) ==
    /\ pc[t] = from
    /\ sCurrent[t] = unpack(data)
    /\ UNCHANGED vars

StoreWrite(t, from, to) ==
    /\ pc[t] = from
    /\ \E r \in CheckedAdd1(sCurrent[t].version) :
          IF r.overflow
          THEN /\ pc' = [pc EXCEPT ![t] = "panicked"]
               /\ UNCHANGED <<data, installed, updated>>
          ELSE /\ data' = pack(new(arg[t], r.sum))
               /\ updated' = [updated EXCEPT ![t] = new(arg[t], r.sum)]
               /\ installed' = Append(installed, unpack(data'))
               /\ pc' = [pc EXCEPT ![t] = to]
    /\ sCurrent' = [sCurrent EXCEPT ![t] = new(U32(0), U32(0))]
    /\ arg' = [arg EXCEPT ![t] = U32(0)]
    /\ UNCHANGED <<cur, initial, res, finalState, loadAt, casAt>>

\* compare_exchange_versioned(expected, new_value): one compare_exchange of
\* the packed word; Ok(new_value) or Err(unpack(actual)).
compare_exchange_versioned(t, expected, new_value, from, to) ==
    /\ pc[t] = from
    /\ IF WordMatches(data, pack(expected))
       THEN /\ data' = pack(new_value)
            /\ res' = [res EXCEPT ![t] = [ok |-> TRUE, val |-> new_value]]
            /\ installed' = Append(installed, unpack(data'))
       ELSE /\ res' = [res EXCEPT ![t] = [ok |-> FALSE, val |-> unpack(data)]]
            /\ UNCHANGED <<data, installed>>
    /\ pc' = [pc EXCEPT ![t] = to]
    /\ UNCHANGED <<cur, initial, sCurrent, arg, updated, finalState, loadAt>>

\* ----------------------------------------------------- clients of the cell
\* The two threads perform MaxOps operations in all, each a load, a store of
\* some value or a versioned CAS from the pair the thread loaded last to
\* (value, version + 1), on a cell created by new(0).

\* The operations started so far.
OpsStarted == iter[Writer] + iter[Detector]

InitCell ==
    /\ LockInit /\ TestInit /\ GuardInit /\ TallyInit /\ PlainInit
    /\ ret = [t \in CellThreads |-> FALSE]
    /\ view = [t \in CellThreads |-> 1]
    /\ pc = [t \in CellThreads |-> "idle"]
    /\ iter = [t \in CellThreads |-> 0]
    /\ CellNew(ValueA, CellThreads)

CellLoad(t) ==
    /\ pc[t] = "idle"
    /\ OpsStarted < MaxOps
    /\ iter' = [iter EXCEPT ![t] = @ + 1]
    /\ cur' = [cur EXCEPT ![t] = load]
    /\ UNCHANGED <<pc, data, initial, sCurrent, arg, res, updated, finalState,
                   installed, loadAt, casAt, spinVars, tallyVars, plainVars>>

CellStoreRead(t) ==
    /\ OpsStarted < MaxOps
    /\ iter' = [iter EXCEPT ![t] = @ + 1]
    /\ \E v \in Values : StoreRead(t, v, "idle", "store_write")
    /\ UNCHANGED <<spinVars, tallyVars, plainVars>>

CellStoreWrite(t) ==
    /\ StoreWrite(t, "store_write", "idle")
    /\ UNCHANGED <<iter, spinVars, tallyVars, plainVars>>

CellCas(t) ==
    /\ OpsStarted < MaxOps
    /\ iter' = [iter EXCEPT ![t] = @ + 1]
    /\ \E v \in Values : \E r \in CheckedAdd1(cur[t].version) :
          IF r.overflow
          THEN /\ pc[t] = "idle"
               /\ pc' = [pc EXCEPT ![t] = "panicked"]
               /\ UNCHANGED cellVars
          ELSE /\ compare_exchange_versioned(t, cur[t], new(v, r.sum), "idle", "idle")
               /\ UNCHANGED casAt
    /\ UNCHANGED <<spinVars, tallyVars, plainVars>>

NextCell ==
    \E t \in CellThreads :
        \/ CellLoad(t)
        \/ CellStoreRead(t)
        \/ CellStoreWrite(t)
        \/ CellCas(t)

SpecCell == InitCell /\ [][NextCell]_vars

\* The same clients, taken from the moment the writer has called store(A) and
\* made its load: the load returned (A, 0) and the write is still to come.
InitMid ==
    /\ LockInit /\ TestInit /\ GuardInit /\ TallyInit /\ PlainInit
    /\ ret = [t \in CellThreads |-> FALSE]
    /\ view = [t \in CellThreads |-> 1]
    /\ iter = [t \in CellThreads |-> 0]
    /\ pc = [t \in CellThreads |-> IF t = Writer THEN "store_write" ELSE "idle"]
    /\ data = pack(new(ValueA, U32(0)))
    /\ cur = [t \in CellThreads |-> new(ValueA, U32(0))]
    /\ initial = [t \in CellThreads |-> new(ValueA, U32(0))]
    /\ sCurrent = [t \in CellThreads |->
                      IF t = Writer THEN unpack(data) ELSE new(U32(0), U32(0))]
    /\ arg = [t \in CellThreads |-> IF t = Writer THEN ValueA ELSE U32(0)]
    /\ res = [t \in CellThreads |-> [ok |-> TRUE, val |-> new(ValueA, U32(0))]]
    /\ updated = [t \in CellThreads |-> new(ValueA, U32(0))]
    /\ finalState = new(ValueA, U32(0))
    /\ installed = <<new(ValueA, U32(0))>>
    /\ loadAt = -1
    /\ casAt = -1

SpecCellMid == InitMid /\ [][NextCell]_vars

\* Clients that pass compare_exchange_versioned any expected and any new
\* pair: the signature takes two VersionedValues and VersionedValue::new
\* builds one from any value and any version.
MaxAnyVersion == 2   \* the versions these clients pass are 0..MaxAnyVersion

AnyPairs ==
    {new(v, U32(n)) : v \in {ValueA, ValueB}, n \in 0..MaxAnyVersion}

CellCasAny(t) ==
    /\ OpsStarted < MaxOps
    /\ iter' = [iter EXCEPT ![t] = @ + 1]
    /\ \E expected \in AnyPairs : \E new_value \in AnyPairs :
          compare_exchange_versioned(t, expected, new_value, "idle", "idle")
    /\ UNCHANGED <<casAt, spinVars, tallyVars, plainVars>>

NextAny ==
    \E t \in CellThreads :
        \/ CellLoad(t)
        \/ CellCasAny(t)

SpecAny == InitCell /\ [][NextAny]_vars

\* ------------------------------------------- test_versioned_atomic_counter
\* One thread on a cell created by new(x): it loads and stores, and no other
\* thread touches the cell.  The test uses x = 10; the other initial values
\* are the ends of the u32 range and of its 16-bit halves.
InitialValues == {U32(0), U32(10), <<0, Limb - 1>>, <<1, 0>>, U32Max}

InitSeq ==
    /\ LockInit /\ TestInit /\ GuardInit /\ TallyInit /\ PlainInit
    /\ ret = [t \in CellThreads |-> FALSE]
    /\ view = [t \in CellThreads |-> 1]
    /\ pc = [t \in CellThreads |-> "idle"]
    /\ iter = [t \in CellThreads |-> 0]
    /\ \E x \in InitialValues : CellNew(x, CellThreads)

NextSeq ==
    \/ CellLoad(Writer)
    \/ CellStoreRead(Writer)
    \/ CellStoreWrite(Writer)

SpecSeq == InitSeq /\ [][NextSeq]_vars

\* One thread on a cell that has been stored to so often that its version is
\* 2^32 - 2 or 2^32 - 1.
NearMaxVersions == {<<Limb - 1, Limb - 2>>, U32Max}

InitMax ==
    /\ LockInit /\ TestInit /\ GuardInit /\ TallyInit /\ PlainInit
    /\ ret = [t \in CellThreads |-> FALSE]
    /\ view = [t \in CellThreads |-> 1]
    /\ pc = [t \in CellThreads |-> "idle"]
    /\ iter = [t \in CellThreads |-> 0]
    /\ \E version \in NearMaxVersions :
          /\ data = pack(new(ValueA, version))
          /\ cur = [t \in CellThreads |-> new(ValueA, version)]
          /\ initial = [t \in CellThreads |-> new(ValueA, version)]
          /\ res = [t \in CellThreads |->
                       [ok |-> TRUE, val |-> new(ValueA, version)]]
          /\ updated = [t \in CellThreads |-> new(ValueA, version)]
          /\ finalState = new(ValueA, version)
          /\ installed = <<new(ValueA, version)>>
    /\ sCurrent = [t \in CellThreads |-> new(U32(0), U32(0))]
    /\ arg = [t \in CellThreads |-> U32(0)]
    /\ loadAt = -1
    /\ casAt = -1

SpecMax == InitMax /\ [][NextSeq]_vars

\* ---------------------------------------- test_versioned_value_pack_unpack
\* let v1 = VersionedValue::new(value, version); let packed = v1.pack();
\* let v2 = VersionedValue::unpack(packed).  v1 is kept in initial[Writer],
\* packed in data and v2 in cur[Writer].
MaxSmall == 2        \* the small inputs of pack are 0..MaxSmall

\* The inputs: small numbers, the test's 42 and 5, and the ends of the u32
\* range and of its 16-bit halves.
PackInputs ==
    {U32(n) : n \in 0..MaxSmall}
        \cup {U32(42), U32(5)}
        \cup {<<0, Limb - 1>>, <<1, 0>>, <<Limb - 1, 0>>, U32Max}

InitPack ==
    /\ LockInit /\ TestInit /\ GuardInit /\ TallyInit /\ PlainInit
    /\ ret = [t \in CellThreads |-> FALSE]
    /\ view = [t \in CellThreads |-> 1]
    /\ iter = [t \in CellThreads |-> 0]
    /\ pc = [t \in CellThreads |-> IF t = Writer THEN "pack" ELSE "idle"]
    /\ \E value \in PackInputs : \E version \in PackInputs :
          initial = [t \in CellThreads |->
                        IF t = Writer THEN new(value, version)
                        ELSE new(U32(0), U32(0))]
    /\ data = <<0, 0, 0, 0>>
    /\ cur = [t \in CellThreads |-> new(U32(0), U32(0))]
    /\ sCurrent = [t \in CellThreads |-> new(U32(0), U32(0))]
    /\ arg = [t \in CellThreads |-> U32(0)]
    /\ res = [t \in CellThreads |-> [ok |-> TRUE, val |-> new(U32(0), U32(0))]]
    /\ updated = [t \in CellThreads |-> new(U32(0), U32(0))]
    /\ finalState = new(U32(0), U32(0))
    /\ installed = <<>>
    /\ loadAt = -1
    /\ casAt = -1

\* let packed = v1.pack()
PackStep ==
    /\ pc[Writer] = "pack"
    /\ data' = pack(initial[Writer])
    /\ pc' = [pc EXCEPT ![Writer] = "unpack"]
    /\ UNCHANGED <<cur, initial, sCurrent, arg, res, updated, finalState,
                   installed, loadAt, casAt, iter, spinVars,
                   tallyVars, plainVars>>

\* let v2 = VersionedValue::unpack(packed)
UnpackStep ==
    /\ pc[Writer] = "unpack"
    /\ cur' = [cur EXCEPT ![Writer] = unpack(data)]
    /\ pc' = [pc EXCEPT ![Writer] = "done"]
    /\ UNCHANGED <<data, initial, sCurrent, arg, res, updated, finalState,
                   installed, loadAt, casAt, iter, spinVars,
                   tallyVars, plainVars>>

NextPack ==
    \/ PackStep
    \/ UnpackStep

SpecPack == InitPack /\ [][NextPack]_vars

\* ------------------------------------------------------------ main (demo)
\* main creates the cell with new(0) and spawns two threads.  The writer runs
\* store(1); store(0).  The detector loads `initial`, loads `current`, gives
\* up when current.version > initial.version, and otherwise tries
\* compare_exchange_versioned(current, (100, current.version + 1)).  After
\* the scope has joined both, main loads final_state.
\* test_aba_prevention_100_times repeats this on a fresh cell and tallies the
\* rounds that ended with value 100 and those that did not.
MaxRounds == 2       \* rounds of test_aba_prevention_100_times

Main == 0
DemoThreads == {Main, Writer, Detector}

\* The threads as thread::scope spawns them.
Spawned ==
    [t \in DemoThreads |->
        IF t = Writer THEN "w_store_b"
        ELSE IF t = Detector THEN "d_initial" ELSE "join"]

InitDemo ==
    /\ LockInit /\ TestInit /\ GuardInit /\ TallyInit /\ PlainInit
    /\ ret = [t \in DemoThreads |-> FALSE]
    /\ view = [t \in DemoThreads |-> 1]
    /\ iter = [t \in DemoThreads |-> IF t = Main THEN 1 ELSE 0]
    /\ pc = Spawned
    /\ CellNew(ValueA, DemoThreads)

\* counter.store(1)
WriterReadB ==
    /\ StoreRead(Writer, ValueB, "w_store_b", "w_write_b")
    /\ UNCHANGED <<iter, spinVars, tallyVars, plainVars>>

WriterWriteB ==
    /\ StoreWrite(Writer, "w_write_b", "w_store_a")
    /\ UNCHANGED <<iter, spinVars, tallyVars, plainVars>>

\* counter.store(0)
WriterReadA ==
    /\ StoreRead(Writer, ValueA, "w_store_a", "w_write_a")
    /\ UNCHANGED <<iter, spinVars, tallyVars, plainVars>>

WriterWriteA ==
    /\ StoreWrite(Writer, "w_write_a", "done")
    /\ UNCHANGED <<iter, spinVars, tallyVars, plainVars>>

\* let initial = counter.load()
DetectorLoadInitial ==
    /\ pc[Detector] = "d_initial"
    /\ initial' = [initial EXCEPT ![Detector] = load]
    /\ loadAt' = Mutations
    /\ pc' = [pc EXCEPT ![Detector] = "d_current"]
    /\ UNCHANGED <<data, cur, sCurrent, arg, res, updated, finalState,
                   installed, casAt, iter, spinVars, tallyVars, plainVars>>

\* let current = counter.load()
DetectorLoadCurrent ==
    /\ pc[Detector] = "d_current"
    /\ cur' = [cur EXCEPT ![Detector] = load]
    /\ pc' = [pc EXCEPT ![Detector] = "d_check"]
    /\ UNCHANGED <<data, initial, sCurrent, arg, res, updated, finalState,
                   installed, loadAt, casAt, iter, spinVars,
                   tallyVars, plainVars>>

\* if current.version > initial.version { return; }
DetectorCheck ==
    /\ pc[Detector] = "d_check"
    /\ pc' = [pc EXCEPT ![Detector] =
                IF U32Less(initial[Detector].version, cur[Detector].version)
                THEN "done" ELSE "d_cas"]
    /\ UNCHANGED <<cellVars, iter, spinVars, tallyVars, plainVars>>

\* new_versioned = (100, current.version + 1);
\* counter.compare_exchange_versioned(current, new_versioned)
DetectorCas ==
    /\ \E r \in CheckedAdd1(cur[Detector].version) :
          IF r.overflow
          THEN /\ pc[Detector] = "d_cas"
               /\ pc' = [pc EXCEPT ![Detector] = "panicked"]
               /\ UNCHANGED cellVars
          ELSE /\ compare_exchange_versioned(Detector, cur[Detector],
                                           new(NewValue, r.sum), "d_cas", "done")
               /\ casAt' = Mutations
    /\ UNCHANGED <<iter, spinVars, tallyVars, plainVars>>

\* let final_state = counter.load(), after the scope has joined both
\* threads; if final_state.value == 100 { normal_cas_count += 1 } else
\* { cas_failed_count += 1 }
MainFinal ==
    /\ pc[Main] = "join"
    /\ pc[Writer] = "done"
    /\ pc[Detector] = "done"
    /\ finalState' = load
    /\ IF finalState'.value = NewValue
       THEN /\ normalCasCount' = normalCasCount + 1
            /\ UNCHANGED casFailedCount
       ELSE /\ casFailedCount' = casFailedCount + 1
            /\ UNCHANGED normalCasCount
    /\ pc' = [pc EXCEPT ![Main] = "end"]
    /\ UNCHANGED <<data, cur, initial, sCurrent, arg, res, updated, installed,
                   loadAt, casAt, iter, spinVars, plainVars>>

\* for test_num in 1..=100: the next round, on a fresh cell.
MainNextRound ==
    /\ pc[Main] = "end"
    /\ iter[Main] < MaxRounds
    /\ iter' = [iter EXCEPT ![Main] = @ + 1]
    /\ pc' = Spawned
    /\ data' = pack(new(ValueA, U32(0)))
    /\ cur' = [t \in DemoThreads |-> new(ValueA, U32(0))]
    /\ initial' = [t \in DemoThreads |-> new(ValueA, U32(0))]
    /\ sCurrent' = [t \in DemoThreads |-> new(U32(0), U32(0))]
    /\ arg' = [t \in DemoThreads |-> U32(0)]
    /\ res' = [t \in DemoThreads |-> [ok |-> TRUE, val |-> new(ValueA, U32(0))]]
    /\ updated' = [t \in DemoThreads |-> new(ValueA, U32(0))]
    /\ finalState' = new(ValueA, U32(0))
    /\ installed' = <<new(ValueA, U32(0))>>
    /\ loadAt' = -1
    /\ casAt' = -1
    /\ UNCHANGED <<spinVars, tallyVars, plainVars>>

NextDemo ==
    \/ WriterReadB
    \/ WriterWriteB
    \/ WriterReadA
    \/ WriterWriteA
    \/ DetectorLoadInitial
    \/ DetectorLoadCurrent
    \/ DetectorCheck
    \/ DetectorCas
    \/ MainFinal
    \/ MainNextRound

SpecDemo == InitDemo /\ [][NextDemo]_vars

\* ----------------------------------------------------- main3 / main4 (ABA)
\* The same two threads on a plain AtomicUsize counter starting at 0: thread 1
\* stores 1 and then 0; thread 2 loads initial_value and then tries
\* compare_exchange(initial_value, 100).  main4 repeats main3's round on a
\* fresh counter and tallies the rounds that ended with 100 (aba_count) and
\* the others (normal_count).  All accesses are Relaxed and the counter is
\* the only location the threads share, so its modification order `hist` is
\* the order of the steps and each access meets its last element.
PlainNew == 100

\* Rounds of main4's loop (50 in the source).
MaxPlainRounds == 3

\* AtomicUsize::compare_exchange succeeds exactly when the value equals
\* expected.
PlainMatchesNever(actual, expected) == FALSE
PlainMatches(actual, expected) == actual = expected

\* At the head of a round main is about to spawn thread 1; neither thread
\* runs yet.
SpawnedPlain ==
    [t \in DemoThreads |-> IF t = Main THEN "spawn_1" ELSE "unborn"]

InitPlain ==
    /\ LockInit /\ TestInit /\ GuardInit /\ TallyInit /\ PlainInit
    /\ ret = [t \in DemoThreads |-> FALSE]
    /\ view = [t \in DemoThreads |-> 1]
    /\ iter = [t \in DemoThreads |-> IF t = Main THEN 1 ELSE 0]
    /\ pc = SpawnedPlain
    /\ CellNew(ValueA, DemoThreads)

\* s.spawn(|| { ... }) of thread 1
PlainSpawnWriter ==
    /\ pc[Main] = "spawn_1"
    /\ pc' = [pc EXCEPT ![Main] = "spawn_2", ![Writer] = "p_store_b"]
    /\ UNCHANGED <<lockVars, ret, view, iter, testVars, guardVars, cellVars,
                   tallyVars, plainVars>>

\* s.spawn(|| { ... }) of thread 2
PlainSpawnDetector ==
    /\ pc[Main] = "spawn_2"
    /\ pc' = [pc EXCEPT ![Main] = "join", ![Detector] = "p_load"]
    /\ UNCHANGED <<lockVars, ret, view, iter, testVars, guardVars, cellVars,
                   tallyVars, plainVars>>

\* counter.store(1, Relaxed)
PlainStoreB ==
    /\ pc[Writer] = "p_store_b"
    /\ hist' = Append(hist, 1)
    /\ pc' = [pc EXCEPT ![Writer] = "p_store_a"]
    /\ UNCHANGED <<lockVars, ret, view, iter, current, dataLen, finalCount,
                   guardVars, cellVars, tallyVars, plainVars>>

\* counter.store(0, Relaxed)
PlainStoreA ==
    /\ pc[Writer] = "p_store_a"
    /\ hist' = Append(hist, 0)
    /\ pc' = [pc EXCEPT ![Writer] = "done"]
    /\ UNCHANGED <<lockVars, ret, view, iter, current, dataLen, finalCount,
                   guardVars, cellVars, tallyVars, plainVars>>

\* let initial_value = counter.load(Relaxed)
PlainLoad ==
    /\ pc[Detector] = "p_load"
    /\ current' = [current EXCEPT ![Detector] = hist[Len(hist)]]
    /\ loadAt' = Len(hist) - 1
    /\ pc' = [pc EXCEPT ![Detector] = "p_cas"]
    /\ UNCHANGED <<lockVars, ret, view, iter, hist, dataLen, finalCount,
                   guardVars, data, cur, initial, sCurrent, arg, res, updated,
                   finalState, installed, casAt, tallyVars, plainVars>>

\* counter.compare_exchange(initial_value, 100, Relaxed, Relaxed): Ok sets
\* cas_success, Err sets cas_failed.
PlainCas ==
    /\ pc[Detector] = "p_cas"
    /\ IF PlainMatches(hist[Len(hist)], current[Detector])
       THEN /\ hist' = Append(hist, PlainNew)
            /\ ret' = [ret EXCEPT ![Detector] = TRUE]
       ELSE /\ ret' = [ret EXCEPT ![Detector] = FALSE]
            /\ UNCHANGED hist
    /\ casAt' = Len(hist) - 1
    /\ pc' = [pc EXCEPT ![Detector] = "done"]
    /\ UNCHANGED <<lockVars, view, iter, current, dataLen, finalCount,
                   guardVars, data, cur, initial, sCurrent, arg, res, updated,
                   finalState, installed, loadAt, tallyVars, plainVars>>

\* let final_value = counter.load(Relaxed), after the scope has joined both
\* threads; if final_value == 100 { aba_count += 1 } else { normal_count += 1 }
PlainFinal ==
    /\ pc[Main] = "join"
    /\ pc[Writer] = "done"
    /\ pc[Detector] = "done"
    /\ finalCount' = hist[Len(hist)]
    /\ IF finalCount' = PlainNew
       THEN /\ abaCount' = abaCount + 1
            /\ UNCHANGED normalCount
       ELSE /\ normalCount' = normalCount + 1
            /\ UNCHANGED abaCount
    /\ pc' = [pc EXCEPT ![Main] = "end"]
    /\ UNCHANGED <<lockVars, ret, view, iter, hist, current, dataLen,
                   guardVars, cellVars, tallyVars, versionHist>>

\* for test_num in 1..=50: the next round, on a fresh counter.
PlainNextRound ==
    /\ pc[Main] = "end"
    /\ iter[Main] < MaxPlainRounds
    /\ iter' = [iter EXCEPT ![Main] = @ + 1]
    /\ pc' = SpawnedPlain
    /\ hist' = <<0>>
    /\ current' = [t \in DOMAIN current |-> 0]
    /\ ret' = [t \in DemoThreads |-> FALSE]
    /\ finalCount' = -1
    /\ loadAt' = -1
    /\ casAt' = -1
    /\ UNCHANGED <<lockVars, view, dataLen, guardVars, data, cur, initial,
                   sCurrent, arg, res, updated, finalState, installed,
                   tallyVars, plainVars>>

NextPlain ==
    \/ PlainSpawnWriter
    \/ PlainSpawnDetector
    \/ PlainStoreB
    \/ PlainStoreA
    \/ PlainLoad
    \/ PlainCas
    \/ PlainFinal
    \/ PlainNextRound

SpecPlain == InitPlain /\ [][NextPlain]_vars

\* ------------------------------------- main6: test_versioned_scenario
\* The value and its version in two separate AtomicU32s.  `hist` is the
\* modification order of `counter` (Relaxed stores and loads) and view[t] the
\* position in it that thread t has seen: a Relaxed load may return any
\* element from there on.  `versionHist` is the modification order of
\* `version`; each element carries the counter view its Release store
\* published, which an Acquire load that reads the element joins.
\* current[t] is the position thread t has seen in versionHist.
\* Thread 2's initial_* and current_* are held in initial[Detector] and
\* cur[Detector].

\* The (counter, version) states thread 1 writes together, with the initial
\* one.
TwoLogicalStates ==
    {new(U32(0), U32(0)), new(U32(1), U32(1)), new(U32(0), U32(2))}

\* The counter view an Acquire load has after reading a version element
\* written with the view `published`.
AcquireFrom(t, published) == Max(view[t], published)

SpawnedTwo ==
    [t \in DemoThreads |-> IF t = Main THEN "spawn_1" ELSE "unborn"]

InitTwo ==
    /\ LockInit /\ GuardInit /\ TallyInit /\ PlainInit
    /\ hist = <<0>>
    /\ current = [t \in Threads |-> 1]
    /\ dataLen = 0
    /\ finalCount = -1
    /\ ret = [t \in DemoThreads |-> FALSE]
    /\ view = [t \in DemoThreads |-> 1]
    /\ iter = [t \in DemoThreads |-> 0]
    /\ pc = SpawnedTwo
    /\ CellNew(ValueA, DemoThreads)

\* s.spawn(|| { ... }) of thread 1
TwoSpawnWriter ==
    /\ pc[Main] = "spawn_1"
    /\ pc' = [pc EXCEPT ![Main] = "spawn_2", ![Writer] = "w_counter_b"]
    /\ UNCHANGED <<lockVars, ret, view, iter, testVars, guardVars, cellVars,
                   tallyVars, plainVars>>

\* s.spawn(|| { ... }) of thread 2
TwoSpawnReader ==
    /\ pc[Main] = "spawn_2"
    /\ pc' = [pc EXCEPT ![Main] = "join", ![Detector] = "r_initial_counter"]
    /\ UNCHANGED <<lockVars, ret, view, iter, testVars, guardVars, cellVars,
                   tallyVars, plainVars>>

\* counter.store(v, Ordering::Relaxed) by thread 1, at position `at`
TwoCounterStore(at, v, next) ==
    /\ pc[Writer] = at
    /\ hist' = Append(hist, v)
    /\ view' = [view EXCEPT ![Writer] = Len(hist')]
    /\ pc' = [pc EXCEPT ![Writer] = next]
    /\ UNCHANGED <<lockVars, ret, iter, current, dataLen, finalCount,
                   guardVars, cellVars, tallyVars, plainVars>>

\* version.store(v, Ordering::Release) by thread 1, at position `at`
TwoVersionStore(at, v, next) ==
    /\ pc[Writer] = at
    /\ versionHist' =
           Append(versionHist, [val |-> v, view |-> ReleaseView(Writer)])
    /\ current' = [current EXCEPT ![Writer] = Len(versionHist')]
    /\ pc' = [pc EXCEPT ![Writer] = next]
    /\ UNCHANGED <<lockVars, ret, view, iter, hist, dataLen, finalCount,
                   guardVars, cellVars, tallyVars, abaCount, normalCount>>

\* Thread 1: counter.store(1); version.store(1); counter.store(0);
\* version.store(2).
TwoWriter ==
    \/ TwoCounterStore("w_counter_b", 1, "w_version_1")
    \/ TwoVersionStore("w_version_1", 1, "w_counter_a")
    \/ TwoCounterStore("w_counter_a", 0, "w_version_2")
    \/ TwoVersionStore("w_version_2", 2, "done")

\* let initial_counter = counter.load(Ordering::Relaxed)
TwoInitialCounter ==
    /\ pc[Detector] = "r_initial_counter"
    /\ \E k \in view[Detector]..Len(hist) :
          /\ view' = [view EXCEPT ![Detector] = k]
          /\ initial' = [initial EXCEPT ![Detector].value = U32(hist[k])]
    /\ pc' = [pc EXCEPT ![Detector] = "r_initial_version"]
    /\ UNCHANGED <<lockVars, ret, iter, testVars, guardVars, data, cur,
                   sCurrent, arg, res, updated, finalState, installed, loadAt,
                   casAt, tallyVars, plainVars>>

\* let initial_version = version.load(Ordering::Acquire)
TwoInitialVersion ==
    /\ pc[Detector] = "r_initial_version"
    /\ \E j \in current[Detector]..Len(versionHist) :
          /\ current' = [current EXCEPT ![Detector] = j]
          /\ view' = [view EXCEPT
                         ![Detector] = AcquireFrom(Detector, versionHist[j].view)]
          /\ initial' =
                 [initial EXCEPT ![Detector].version = U32(versionHist[j].val)]
    /\ pc' = [pc EXCEPT ![Detector] = "r_current_counter"]
    /\ UNCHANGED <<lockVars, ret, iter, hist, dataLen, finalCount, guardVars,
                   data, cur, sCurrent, arg, res, updated, finalState,
                   installed, loadAt, casAt, tallyVars, plainVars>>

\* let current_counter = counter.load(Ordering::Relaxed)
TwoCurrentCounter ==
    /\ pc[Detector] = "r_current_counter"
    /\ \E k \in view[Detector]..Len(hist) :
          /\ view' = [view EXCEPT ![Detector] = k]
          /\ cur' = [cur EXCEPT ![Detector].value = U32(hist[k])]
    /\ pc' = [pc EXCEPT ![Detector] = "r_current_version"]
    /\ UNCHANGED <<lockVars, ret, iter, testVars, guardVars, data, initial,
                   sCurrent, arg, res, updated, finalState, installed, loadAt,
                   casAt, tallyVars, plainVars>>

\* let current_version = version.load(Ordering::Acquire); the branches that
\* follow only print.
TwoCurrentVersion ==
    /\ pc[Detector] = "r_current_version"
    /\ \E j \in current[Detector]..Len(versionHist) :
          /\ current' = [current EXCEPT ![Detector] = j]
          /\ view' = [view EXCEPT
                         ![Detector] = AcquireFrom(Detector, versionHist[j].view)]
          /\ cur' = [cur EXCEPT ![Detector].version = U32(versionHist[j].val)]
    /\ pc' = [pc EXCEPT ![Detector] = "done"]
    /\ UNCHANGED <<lockVars, ret, iter, hist, dataLen, finalCount, guardVars,
                   data, initial, sCurrent, arg, res, updated, finalState,
                   installed, loadAt, casAt, tallyVars, plainVars>>

\* The end of thread::scope: both threads are joined.
TwoJoin ==
    /\ pc[Main] = "join"
    /\ pc[Writer] = "done"
    /\ pc[Detector] = "done"
    /\ pc' = [pc EXCEPT ![Main] = "end"]
    /\ UNCHANGED <<lockVars, ret, view, iter, testVars, guardVars, cellVars,
                   tallyVars, plainVars>>

NextTwo ==
    \/ TwoSpawnWriter
    \/ TwoSpawnReader
    \/ TwoWriter
    \/ TwoInitialCounter
    \/ TwoInitialVersion
    \/ TwoCurrentCounter
    \/ TwoCurrentVersion
    \/ TwoJoin

SpecTwo == InitTwo /\ [][NextTwo]_vars

\* --------------------------------------------- main10: inventory deduction
\* test_realistic_seckill_scenario: every user thread runs
\* simulate_user_purchase, which reads the stock once and then calls
\* try_purchase(user_id, 1001, 1); main reads the statistics after the scope
\* has joined all of them.  `hist` is the modification order of `stock`
\* (every access is Relaxed) and view[t] the position in it that thread t has
\* seen: a load may return any element from there on, while the CAS, being a
\* read-modify-write, meets the last one.  current[t] is current_stock,
\* dataLen is orders.len(), ret[t] tells whether try_purchase returned Ok,
\* and finalCount is final_stock.
MaxStock == 2        \* the initial stock is 0..MaxStock (10 in the source)

Quantity == 1

Users == Threads

ShopThreads == Users \cup {Main}

\* The initial stocks: at most one item for every user.
ShopStocks == {n \in 0..MaxStock : n <= Cardinality(Users)}

\* AtomicU32::compare_exchange_weak(expected, _) when the stock holds
\* `actual`: the set of results it can give.  TRUE is Ok; a weak CAS may fail
\* although the comparison succeeds.
StockCasIgnoresExpected(actual, expected) == {TRUE, FALSE}
stock_compare_exchange_weak(actual, expected) ==
    IF actual = expected THEN {TRUE, FALSE} ELSE {FALSE}

InitShop ==
    /\ LockInit /\ GuardInit /\ TallyInit /\ PlainInit
    /\ \E n \in ShopStocks : hist = <<n>>
    /\ current = [t \in Users |-> 0]
    /\ dataLen = 0
    /\ finalCount = -1
    /\ ret = [t \in ShopThreads |-> FALSE]
    /\ view = [t \in ShopThreads |-> 1]
    /\ iter = [t \in ShopThreads |-> 0]
    /\ pc = [t \in ShopThreads |-> IF t = Main THEN "join" ELSE "buy_read"]
    /\ CellNew(U32(0), ShopThreads)

\* let _current_stock = db.read_stock(): one Relaxed load, its value dropped.
ShopReadStock(t) ==
    /\ pc[t] = "buy_read"
    /\ \E k \in view[t]..Len(hist) : view' = [view EXCEPT ![t] = k]
    /\ pc' = [pc EXCEPT ![t] = "buy_load"]
    /\ UNCHANGED <<lockVars, ret, iter, testVars, guardVars, cellVars,
                   tallyVars, plainVars>>

\* try_purchase, head of the loop: let current_stock = self.stock.load(Relaxed);
\* if current_stock < quantity { return Err(..) }.
ShopLoad(t) ==
    /\ pc[t] = "buy_load"
    /\ \E k \in view[t]..Len(hist) :
          /\ view' = [view EXCEPT ![t] = k]
          /\ current' = [current EXCEPT ![t] = hist[k]]
          /\ IF hist[k] < Quantity
             THEN /\ ret' = [ret EXCEPT ![t] = FALSE]
                  /\ pc' = [pc EXCEPT ![t] = "done"]
             ELSE /\ pc' = [pc EXCEPT ![t] = "buy_cas"]
                  /\ UNCHANGED ret
    /\ UNCHANGED <<lockVars, iter, hist, dataLen, finalCount, guardVars,
                   cellVars, tallyVars, plainVars>>

\* self.stock.compare_exchange_weak(current_stock, current_stock - quantity,
\* Relaxed, Relaxed): Ok goes on to the order log, Err(_) to the head of the
\* loop (the value the failed CAS read is dropped).
ShopCas(t) ==
    /\ pc[t] = "buy_cas"
    /\ \E ok \in stock_compare_exchange_weak(hist[Len(hist)], current[t]) :
          IF ok
          THEN /\ hist' = Append(hist, current[t] - Quantity)
               /\ view' = [view EXCEPT ![t] = Len(hist')]
               /\ pc' = [pc EXCEPT ![t] = "buy_push"]
          ELSE /\ pc' = [pc EXCEPT ![t] = "buy_load"]
               /\ UNCHANGED <<hist, view>>
    /\ UNCHANGED <<lockVars, ret, iter, current, dataLen, finalCount,
                   guardVars, cellVars, tallyVars, plainVars>>

\* if let Ok(mut orders) = self.orders.lock() { orders.push(order) }: one
\* push under the mutex, whose guard is dropped at the end of the if.
ShopPush(t) ==
    /\ pc[t] = "buy_push"
    /\ dataLen' = dataLen + 1
    /\ pc' = [pc EXCEPT ![t] = "buy_ret"]
    /\ UNCHANGED <<lockVars, ret, view, iter, hist, current, finalCount,
                   guardVars, cellVars, tallyVars, plainVars>>

\* After the sleep that stands for the commit, return Ok(current_stock -
\* quantity): the order is in the log before its call has returned.
ShopReturnOk(t) ==
    /\ pc[t] = "buy_ret"
    /\ ret' = [ret EXCEPT ![t] = TRUE]
    /\ pc' = [pc EXCEPT ![t] = "done"]
    /\ UNCHANGED <<lockVars, view, iter, testVars, guardVars, cellVars,
                   tallyVars, plainVars>>

\* let (final_stock, order_count) = db.get_stats(), after the scope has
\* joined every user thread.
ShopStats ==
    /\ pc[Main] = "join"
    /\ \A t \in Users : pc[t] = "done"
    /\ finalCount' = hist[Len(hist)]
    /\ pc' = [pc EXCEPT ![Main] = "end"]
    /\ UNCHANGED <<lockVars, ret, view, iter, hist, current, dataLen,
                   guardVars, cellVars, tallyVars, plainVars>>

NextShop ==
    \/ \E t \in Users :
          \/ ShopReadStock(t)
          \/ ShopLoad(t)
          \/ ShopCas(t)
          \/ ShopPush(t)
          \/ ShopReturnOk(t)
    \/ ShopStats

SpecShop == InitShop /\ [][NextShop]_vars

\* The calls of try_purchase that have returned Ok, and those that have
\* returned Err.
OkCalls == {t \in Users : pc[t] = "done" /\ ret[t]}
ErrCalls == {t \in Users : pc[t] = "done" /\ ~ret[t]}

\* ------------------------------------------------------------ properties

\* C1: at most one thread is between a successful acquisition (lock()
\* returned, or try_lock() returned true) and its unlock(); in particular
\* lock() has never returned to a thread while another thread holds the lock.
C1_MutualExclusion ==
    \A t \in Threads : \A u \in Threads :
        (Holding(t) /\ Holding(u)) => t = u

\* lock() has returned to one thread while another one is waiting in lock().
C1_Witness ==
    \E t \in Threads : \E u \in Threads \ {t} :
        pc[t] = "lock_ret" /\ pc[u] = "lock_spin"

\* C2: every mutation that takes effect (a store's write, a successful CAS
\* whose desired version is expected.version + 1) leaves the cell's version
\* exactly 1 greater than the version it replaced, so after k mutations the
\* version is k.
C2_VersionStepsByOne ==
    /\ \A i \in 2..Len(installed) :
          installed[i].version = U32Succ(installed[i - 1].version)
    /\ load.version = U32(Mutations)

\* C3: the version stored in the cell never decreases in a step.
C3_VersionNeverDecreases ==
    [][~U32Less(unpack(data').version, unpack(data).version)]_vars

\* C4: when both stores of the writer (A -> B -> A) took effect between the
\* detector's first load and its compare_exchange_versioned, and the CAS
\* expects the first loaded pair, the CAS fails, leaves the cell as it is, and
\* returns a pair with value A and a version at least 2 above the first
\* loaded one.
C4_AbaDetected ==
    [][(/\ pc[Detector] = "d_cas"
        /\ pc'[Detector] # "d_cas"
        /\ cur[Detector] = initial[Detector]
        /\ Mutations - loadAt = 2)
       => (/\ ~res'[Detector].ok
           /\ data' = data
           /\ installed' = installed
           /\ res'[Detector].val.value = ValueA
           /\ ~U32Less(res'[Detector].val.version,
                       U32Succ(U32Succ(initial[Detector].version))))]_vars

\* The detector's CAS has been made after both stores, which both came after
\* its first load, and it has failed.
C4_Witness ==
    /\ pc[Detector] = "done"
    /\ loadAt = 0
    /\ casAt = 2
    /\ cur[Detector] = initial[Detector]
    /\ ~res[Detector].ok

\* C5: no two mutations install the same (value, version) pair (nor the pair
\* new() installed), and no two installed pairs share a version with
\* different values.
C5_UniquePairs ==
    \A i \in DOMAIN installed : \A j \in DOMAIN installed :
        /\ i # j => installed[i] # installed[j]
        /\ installed[i].version = installed[j].version
              => installed[i].value = installed[j].value

\* C6: under test_spinlock (N workers, K locked read-then-write increments
\* each) no increment is lost: the newest counter value always equals the
\* number of increments made, and the final count read by main is N x K (as
\* is the length of the data vector).
C6_CounterExact ==
    /\ hist[Len(hist)] = Len(hist) - 1
    /\ finalCount # -1 =>
          /\ finalCount = NWorkers * KIters
          /\ dataLen = NWorkers * KIters

\* main has read the final count and every worker has made all its increments.
C6_Witness ==
    /\ finalCount = NWorkers * KIters
    /\ Len(hist) = NWorkers * KIters + 1

\* C7: the flag is false when the lock is created; in every reachable state
\* it is true exactly when some thread holds the lock; it changes only from
\* false to true in a step in which lock()/try_lock() succeeds, and from true
\* to false in an unlock() step.
C7_FlagIffHeld ==
    /\ locked = FALSE
    /\ [](locked <=> Holders # {})
    /\ [][locked' # locked =>
            \/ /\ ~locked
               /\ \E t \in Threads :
                     /\ pc[t] \in {"lock_cas", "try_cas"}
                     /\ ~Holding(t)
                     /\ Holding(t)'
            \/ /\ locked
               /\ \E t \in Threads :
                     /\ pc[t] = "unlock"
                     /\ pc'[t] = "idle"]_vars

\* A thread that got the lock by try_lock() is about to unlock it while
\* another thread's try_lock() has just failed.
C7_Witness ==
    \E t \in Threads : \E u \in Threads \ {t} :
        /\ locked
        /\ pc[t] = "unlock"
        /\ pc[u] = "try_ret" /\ ~ret[u]

\* C8: try_lock() is a single attempt: it can always take its step, and that
\* step ends the call.  When it returns true the flag was false before the
\* step, is true after it, and the caller is the only holder; when it returns
\* false the flag is unchanged and the caller holds nothing.
C8_TryLockSingleAttempt ==
    /\ [](\A t \in Threads : pc[t] = "try_cas" => ENABLED try_lock(t))
    /\ [][\A t \in Threads :
            (pc[t] = "try_cas" /\ pc'[t] # pc[t]) =>
                /\ pc'[t] = "try_ret"
                /\ IF ret'[t]
                   THEN ~locked /\ locked' /\ Holders' = {t}
                   ELSE locked' = locked /\ ~Holding(t)']_vars

\* One try_lock() has returned true and another false.
C8_Witness ==
    \E t \in Threads : \E u \in Threads \ {t} :
        /\ pc[t] = "try_ret" /\ ret[t]
        /\ pc[u] = "try_ret" /\ ~ret[u]

\* C9: in the try_lock harness no critical section is entered while the guard
\* is set, the guard is set exactly while a thread is inside, and when every
\* thread is done the number of acquisitions equals the number of unlock()
\* calls and the lock is unlocked.
C9_TryLockRace ==
    /\ ~overlap
    /\ guard <=> (\E t \in Threads : pc[t] = "cs")
    /\ (\A t \in Threads : pc[t] = "done") =>
          /\ acq = unl
          /\ ~locked

\* Every thread is done, several acquisitions succeeded and at least one
\* try_lock() failed.
C9_Witness ==
    /\ \A t \in Threads : pc[t] = "done"
    /\ acq >= 2
    /\ acq < NThreads * MaxTries

\* C10 as stated: under fair scheduling, with every holder eventually calling
\* unlock(), every thread that calls lock() eventually returns from it.
C10_EveryLockReturns ==
    \A t \in Threads : InLock(t) ~> (pc[t] = "lock_ret")

\* C10 as amended: under fair scheduling, with every holder eventually
\* calling unlock(), a thread that calls lock() eventually returns from it
\* holding the lock provided the other threads hold the lock only finitely
\* often (while they keep re-acquiring it, the caller can be overtaken for
\* ever).
C10_LockReturnsUnlessOvertaken ==
    \A t \in Threads :
        (<>[](\A u \in Threads \ {t} : ~Holding(u)))
            => (InLock(t) ~> (pc[t] = "lock_ret"))

\* A thread is waiting inside lock() after a failed CAS, the lock has been
\* released and no other thread is active.
C10_Witness ==
    \E t \in Threads :
        /\ pc[t] = "lock_spin"
        /\ ~locked
        /\ \A u \in Threads \ {t} : pc[u] = "idle"

\* C11: compare_exchange_versioned(expected, desired) is one step on the whole
\* word: it succeeds exactly when the pair in the cell equals expected in
\* value and in version at that step; on success the cell holds desired and
\* Ok(desired) is returned.
C11_CasComparesWholePair ==
    [][\A t \in CellThreads : \A v \in Values :
          LET expected == cur[t]
              desired == new(v, U32Succ(cur[t].version))
          IN  compare_exchange_versioned(t, expected, desired, "idle", "idle")
                 => /\ res'[t].ok <=> (/\ load.value = expected.value
                                        /\ load.version = expected.version)
                    /\ res'[t].ok => (/\ load' = desired
                                       /\ res'[t].val = desired)]_vars

\* A CAS that expected (A, 0) has met (A, 2), the same value under another
\* version, and has failed.
C11_Witness ==
    \E t \in CellThreads :
        /\ ~res[t].ok
        /\ cur[t] = new(ValueA, U32(0))
        /\ res[t].val = new(ValueA, U32(2))

\* C12: a failed compare_exchange_versioned leaves the word (and so the
\* pair) as it was and returns Err(actual), actual being the pair the cell
\* held at the step of the comparison.
C12_FailedCasReturnsActual ==
    [][\A t \in CellThreads : \A v \in Values :
          LET expected == cur[t]
              desired == new(v, U32Succ(cur[t].version))
          IN  (/\ compare_exchange_versioned(t, expected, desired, "idle", "idle")
               /\ ~res'[t].ok)
                 => /\ data' = data
                    /\ installed' = installed
                    /\ pack(res'[t].val) = data
                    /\ res'[t].val = installed[Len(installed)]]_vars

\* A CAS has failed on a cell holding value B and has returned the pair the
\* cell still holds.
C12_Witness ==
    \E t \in CellThreads :
        /\ ~res[t].ok
        /\ res[t].val.value = ValueB
        /\ pack(res[t].val) = data

\* C13 as stated: when the detector's two loads returned the same version, the
\* compare_exchange_versioned it then issues with the loaded pair as expected
\* succeeds and installs (100, version + 1).
C13_SafeCasSameVersion ==
    [][(/\ pc[Detector] = "d_cas"
        /\ pc'[Detector] # "d_cas"
        /\ cur[Detector].version = initial[Detector].version)
       => (/\ res'[Detector].ok
           /\ load' = new(NewValue, U32Succ(cur[Detector].version)))]_vars

\* C13 as amended: when no mutation has taken effect between the detector's
\* first load and the step of its compare_exchange_versioned (so both loads
\* returned the same pair and the cell still holds it), the CAS succeeds and
\* installs (100, version + 1).
C13_SafeCasWhenUnchanged ==
    [][(/\ pc[Detector] = "d_cas"
        /\ pc'[Detector] # "d_cas"
        /\ Mutations = loadAt)
       => (/\ res'[Detector].ok
           /\ load' = new(NewValue, U32Succ(cur[Detector].version)))]_vars

\* The detector has loaded twice after the writer's first store and its CAS,
\* made before the second store took effect, has succeeded.
C13_Witness ==
    /\ pc[Detector] = "done"
    /\ loadAt = 1
    /\ casAt = 1
    /\ res[Detector].ok
    /\ res[Detector].val = new(NewValue, U32(2))

\* C14: any two loads that returned the same version returned the same value.
C14_SameVersionSameValue ==
    \A t \in CellThreads : \A u \in CellThreads :
        cur[t].version = cur[u].version => cur[t].value = cur[u].value

\* C15: store(v) writes the pair (v, r + 1), r being the version it read, and
\* returns that pair; with no other mutator the version it read is the cell's
\* version, the n-th store on a cell created by new(x) returns version n, and
\* a load that follows returns the pair the store returned.
C15_StoreIncrementsVersion ==
    /\ [][CellStoreWrite(Writer) =>
            /\ sCurrent[Writer].version = load.version
            /\ updated'[Writer] = new(arg[Writer], U32Succ(sCurrent[Writer].version))
            /\ data' = pack(updated'[Writer])]_vars
    /\ []((pc[Writer] = "idle" /\ Mutations >= 1) =>
            /\ updated[Writer].version = U32(Mutations)
            /\ load = updated[Writer])
    /\ [][(CellLoad(Writer) /\ Mutations >= 1) =>
            cur'[Writer] = updated[Writer]]_vars

\* The third store on a cell has returned (100, 3) and the load after it has
\* returned the same pair.
C15_Witness ==
    /\ Mutations = 3
    /\ pc[Writer] = "idle"
    /\ updated[Writer] = new(NewValue, U32(3))
    /\ cur[Writer] = updated[Writer]

\* C16: the first load of a cell created by new(initial_value), before any
\* mutation, returns (initial_value, 0).
C16_NewThenLoad ==
    [][(CellLoad(Writer) /\ Mutations = 0) =>
          /\ cur'[Writer].value = installed[1].value
          /\ cur'[Writer].version = U32(0)]_vars

\* A cell created by new(0xFFFFFFFF) has been loaded once and nothing else
\* has been done to it.
C16_Witness ==
    /\ iter[Writer] = 1
    /\ pc[Writer] = "idle"
    /\ Mutations = 0
    /\ installed[1].value = U32Max
    /\ cur[Writer] = new(U32Max, U32(0))

\* C17: unpack(pack(value, version)) gives back the same value and the same
\* version.
C17_PackUnpackRoundTrip ==
    pc[Writer] = "done" =>
        /\ cur[Writer].value = initial[Writer].value
        /\ cur[Writer].version = initial[Writer].version

\* The pair (0xFFFFFFFF, 5) has been packed and unpacked.
C17_Witness ==
    /\ pc[Writer] = "done"
    /\ initial[Writer] = new(U32Max, U32(5))
    /\ cur[Writer] = new(U32Max, U32(5))

\* C18: pack(value, version) is version * 2^32 + value, a number below 2^64:
\* written with 16-bit digits it is the two digits of version followed by the
\* two digits of value.
C18_PackedLayout ==
    pc[Writer] \in {"unpack", "done"} =>
        /\ data = <<initial[Writer].version[1], initial[Writer].version[2],
                    initial[Writer].value[1], initial[Writer].value[2]>>
        /\ Len(data) = 4
        /\ \A i \in 1..4 : data[i] \in 0..(Limb - 1)

\* The pair (42, 0xFFFF0000) has been packed.
C18_Witness ==
    /\ pc[Writer] = "unpack"
    /\ initial[Writer] = new(U32(42), <<Limb - 1, 0>>)
    /\ data = <<Limb - 1, 0, 0, 42>>

\* C19: reads are never torn: every pair a load returned (in load() itself or
\* inside store()) and every actual pair a failed compare_exchange_versioned
\* returned is one of the pairs installed as a whole by new, by a store or by
\* a successful CAS.
C19_ReadsNeverTorn ==
    \A t \in CellThreads :
        /\ \E i \in DOMAIN installed : cur[t] = installed[i]
        /\ pc[t] = "store_write" =>
              \E i \in DOMAIN installed : sCurrent[t] = installed[i]
        /\ ~res[t].ok =>
              \E i \in DOMAIN installed : res[t].val = installed[i]

\* The writer has loaded (B, 1) between its two stores, and the detector's
\* CAS has then failed and returned (100, 2).
C19_Witness ==
    /\ cur[Writer] = new(ValueB, U32(1))
    /\ ~res[Detector].ok
    /\ res[Detector].val = new(NewValue, U32(2))

\* C20: the operations of the cell are non-blocking.  A thread inside
\* store() can always take its second step, and an idle thread can always
\* start and finish a load or a compare_exchange_versioned, whatever the
\* other thread does; load and compare_exchange_versioned take one atomic
\* step of the caller and store two; compare_exchange_versioned makes one
\* attempt and returns to the caller with Err when it meets a conflict.
C20_NonBlocking ==
    /\ [](\A t \in CellThreads :
            /\ pc[t] = "store_write" => ENABLED CellStoreWrite(t)
            /\ (pc[t] = "idle" /\ OpsStarted < MaxOps) =>
                  /\ ENABLED CellLoad(t)
                  /\ ENABLED CellStoreRead(t)
                  /\ ENABLED CellCas(t))
    /\ [][\A t \in CellThreads :
            /\ pc'[t] # pc[t] =>
                  \/ pc[t] = "idle" /\ pc'[t] = "store_write"
                  \/ pc[t] = "store_write" /\ pc'[t] = "idle"
            /\ CellLoad(t) => pc'[t] = "idle"
            /\ CellCas(t) =>
                  /\ pc'[t] = "idle"
                  /\ iter'[t] = iter[t] + 1
                  /\ ~WordMatches(data, pack(cur[t])) =>
                        (~res'[t].ok /\ data' = data)]_vars

\* A thread is inside store() and the cell has changed since its load, after
\* the other thread's CAS has reported a conflict.
C20_Witness ==
    \E t \in CellThreads : \E u \in CellThreads \ {t} :
        /\ pc[t] = "store_write"
        /\ sCurrent[t] # load
        /\ ~res[u].ok

\* C21: the Release store of unlock() and the Acquire CAS of lock() and
\* try_lock() pair up: a thread that holds the lock has seen every write to
\* the counter made in earlier critical sections, so the Relaxed load in its
\* critical section returns the previous holder's last write, never an older
\* value.
C21_ReleaseAcquirePairing ==
    /\ [](\A t \in Workers : Holding(t) => view[t] = Len(hist))
    /\ [][\A t \in Workers :
            TestLoad(t) => current'[t] = hist[Len(hist)]]_vars

\* A worker that has written nothing yet has acquired the lock by try_lock()
\* after another worker's critical section, and has seen that worker's write.
C21_Witness ==
    \E t \in Workers :
        /\ pc[t] = "try_ret"
        /\ ret[t]
        /\ iter[t] = 0
        /\ Len(hist) >= 2
        /\ view[t] = Len(hist)

\* C22: unlock() checks nothing and returns nothing: whoever calls it, and
\* whatever the state of the lock, its step is enabled, ends the call and
\* leaves the flag false; no result is reported to the caller.
C22_UnlockUnchecked ==
    /\ [](\A t \in Threads : pc[t] = "unlock" => ENABLED unlock(t))
    /\ [][\A t \in Threads :
            unlock(t) => (/\ ~locked'
                          /\ pc'[t] = "idle"
                          /\ ret' = ret)]_vars

\* lock() has returned to a thread and the flag is false: another thread's
\* unlock() has released the lock it did not hold.
C22_Witness ==
    \E t \in Threads :
        /\ pc[t] = "lock_ret"
        /\ ~locked

\* C23: lock() has two phases.  A thread enters the wait phase only from a
\* failed CAS attempt, only reads the flag while it waits, and goes back to
\* the CAS only after it has read the flag as false; lock() changes the flag
\* only by a CAS that succeeds, from false to true.
C23_TwoPhaseAcquisition ==
    [][\A t \in Threads :
          /\ (pc[t] # "lock_spin" /\ pc'[t] = "lock_spin") =>
                (pc[t] = "lock_cas" /\ locked' = locked)
          /\ (pc[t] = "lock_spin" /\ pc'[t] # "lock_spin") =>
                (pc'[t] = "lock_cas" /\ ~locked)
          /\ LockSpin(t) => locked' = locked
          /\ LockCas(t) =>
                (locked' # locked => (~locked /\ locked' /\ pc'[t] = "lock_ret"))
          /\ (pc[t] = "lock_cas" /\ pc'[t] = "lock_ret") =>
                (~locked /\ locked')]_vars

\* A thread is in the wait phase while the holder is about to call unlock().
C23_Witness ==
    \E t \in Threads : \E u \in Threads \ {t} :
        /\ pc[t] = "lock_spin"
        /\ pc[u] = "unlock"
        /\ locked

\* C24: a failed compare_exchange_versioned never returns an actual pair that
\* equals the expected pair in value and in version.
C24_FailureDiffersFromExpected ==
    [][\A t \in CellThreads : \A v \in Values :
          LET expected == cur[t]
              desired == new(v, U32Succ(cur[t].version))
          IN  (/\ compare_exchange_versioned(t, expected, desired, "idle", "idle")
               /\ ~res'[t].ok)
                 => ~(/\ res'[t].val.value = expected.value
                      /\ res'[t].val.version = expected.version)]_vars

\* A CAS that expected (A, 0) has failed on a cell holding (100, 1).
C24_Witness ==
    \E t \in CellThreads :
        /\ ~res[t].ok
        /\ cur[t] = new(ValueA, U32(0))
        /\ res[t].val = new(NewValue, U32(1))

\* C25: when a compare_exchange_versioned that expects a loaded pair fails,
\* the actual pair has another value, or the same value under a strictly
\* higher version.
C25_FailureClassified ==
    [][\A t \in CellThreads : \A v \in Values :
          LET expected == cur[t]
              desired == new(v, U32Succ(cur[t].version))
          IN  (/\ compare_exchange_versioned(t, expected, desired, "idle", "idle")
               /\ ~res'[t].ok)
                 => \/ res'[t].val.value # expected.value
                    \/ U32Less(expected.version, res'[t].val.version)]_vars

\* C26: in the demo, when main finds a final value other than 100, the
\* detector's CAS never was attempted or it returned Err.
C26_FinalValueTellsCasOutcome ==
    (pc[Main] = "end" /\ finalState.value # NewValue) =>
        (casAt = -1 \/ ~res[Detector].ok)

\* C27: a store never installs a version smaller than the one it read, even
\* when that one is 2^32 - 1.
C27_NoSilentWrap ==
    [][CellStoreWrite(Writer) =>
          ~U32Less(unpack(data').version, sCurrent[Writer].version)]_vars

\* C28: with the value and the version in two separate atomics the reader can
\* obtain a pair that was never written together (C28_Witness: the value 1
\* with the stale version 0).  What the Release store and Acquire load of the
\* version do give is one direction only: every value read was stored, the
\* versions read do not go back, and a counter load made after version 2 was
\* acquired returns the 0 stored before it.
C28_SeparateAtomicsBound ==
    /\ initial[Detector].value \in {U32(0), U32(1)}
    /\ initial[Detector].version \in {U32(0), U32(1), U32(2)}
    /\ cur[Detector].value \in {U32(0), U32(1)}
    /\ cur[Detector].version \in {U32(0), U32(1), U32(2)}
    /\ pc[Detector] = "done" =>
           ~U32Less(cur[Detector].version, initial[Detector].version)
    /\ (pc[Detector] \in {"r_current_version", "done"}
            /\ initial[Detector].version = U32(2)) =>
           cur[Detector].value = U32(0)

\* Thread 2's initial read returned a pair that thread 1 never wrote together:
\* counter 1 (after the first counter store) with version 0.
C28_Witness ==
    /\ pc[Detector] \in {"r_current_counter", "r_current_version", "done"}
    /\ initial[Detector] = new(U32(1), U32(0))
    /\ initial[Detector] \notin TwoLogicalStates

\* C29: the plain CAS looks at the value only: it succeeds exactly when the
\* counter holds the loaded value at the step of the CAS, whatever was stored
\* in between, and then leaves 100 (so the run in which both stores fall
\* between the load and the CAS ends with the CAS succeeding and the final
\* value 100).
C29_PlainCasSeesValueOnly ==
    [][(pc[Detector] = "p_cas" /\ pc'[Detector] # "p_cas") =>
          /\ ret'[Detector] <=> (hist[Len(hist)] = current[Detector])
          /\ ret'[Detector] => hist'[Len(hist')] = PlainNew]_vars

\* Thread 2 loaded the initial 0, both stores of thread 1 came before its CAS,
\* the CAS succeeded and main found the final value 100.
C29_Witness ==
    /\ pc[Main] = "end"
    /\ loadAt = 0
    /\ casAt = 2
    /\ ret[Detector]
    /\ finalCount = PlainNew

\* C30: a try_lock() whose CAS meets a false flag returns true.
C30_TryLockFailsOnlyWhenHeld ==
    [][\A t \in Threads : (try_lock(t) /\ ~locked) => ret'[t]]_vars

\* C31: a successful compare_exchange_versioned(expected, new_value) leaves
\* the cell's version equal to expected.version + 1, whatever pairs the caller
\* passes.
C31_CasEnforcesVersionRule ==
    [][\A t \in CellThreads : \A expected \in AnyPairs :
          \A new_value \in AnyPairs :
             (/\ compare_exchange_versioned(t, expected, new_value,
                                            "idle", "idle")
              /\ res'[t].ok)
             => unpack(data').version = U32Succ(expected.version)]_vars

\* Thread t is in the wait loop of lock() and the flag is true: its load
\* returns true, it runs spin_loop() and stays in the loop.
Spinning(t) == pc[t] = "lock_spin" /\ locked

\* C32: the spinlock does not deadlock.  Under fair scheduling, whenever the
\* flag is unlocked and a thread is inside lock(), eventually some thread
\* holds the lock; and in no reachable state is every thread spinning while
\* no thread holds the lock.
C32_DeadlockFree ==
    /\ [](~((\A t \in Threads : Spinning(t)) /\ Holders = {}))
    /\ (~locked /\ (\E t \in Threads : InLock(t)))
           ~> (\E u \in Threads : Holding(u))

\* Every thread is inside lock(), in its wait loop after a failed CAS, the
\* flag is unlocked and no thread holds the lock.
C32_Witness ==
    /\ ~locked
    /\ Holders = {}
    /\ \A t \in Threads : pc[t] = "lock_spin"

\* C33: the inventory never oversells.  With U users each calling
\* try_purchase(quantity = 1) on an initial stock S <= U, the stock never
\* goes below 0, never more orders are logged than S and the log is never
\* behind the calls that have returned Ok; when all calls have
\* returned, exactly S returned Ok and U - S returned Err, the final stock is
\* 0 and the order log holds exactly S orders.
C33_NeverOversells ==
    /\ \A k \in 1..Len(hist) : hist[k] >= 0
    /\ dataLen <= hist[1]
    /\ Cardinality(OkCalls) <= dataLen
    /\ pc[Main] = "end" =>
          /\ Cardinality(OkCalls) = hist[1]
          /\ Cardinality(ErrCalls) = Cardinality(Users) - hist[1]
          /\ finalCount = 0
          /\ dataLen = hist[1]

\* All calls have returned on an initial stock of at least 2: some user was
\* served and some user was turned away.
C33_Witness ==
    /\ pc[Main] = "end"
    /\ hist[1] >= 2
    /\ OkCalls # {}
    /\ ErrCalls # {}

====
